---- MODULE Spec2Model ----
(***************************************************************************)
(* Falling-block game engine: the useTetris hook (state transitions) and   *)
(* the gameLogic / tetrominoes helpers (pure functions).                   *)
(*                                                                         *)
(* Indices: the code's arrays are 0-based; boards and shapes are TLA+      *)
(* sequences here, so the code's board[y][x] is board[y + 1][x + 1].       *)
(***************************************************************************)
EXTENDS Integers, Sequences, FiniteSets, TLC

(***************************************************************************)
(* Program constants                                                       *)
(***************************************************************************)
BOARD_WIDTH == 10
BOARD_HEIGHT == 20

null == "null"

\* A null Tetromino (currentPiece: Tetromino | null).
NoPiece == [type |-> "null"]

TetrominoTypes == <<"I", "O", "T", "S", "Z", "J", "L">>

Kinds == {TetrominoTypes[i] : i \in 1..Len(TetrominoTypes)}

TETROMINO_COLORS(type) ==
    CASE type = "I" -> "#00f0f0"
      [] type = "O" -> "#f0f000"
      [] type = "T" -> "#a000f0"
      [] type = "S" -> "#00f000"
      [] type = "Z" -> "#f00000"
      [] type = "J" -> "#0000f0"
      [] type = "L" -> "#f0a000"

TETROMINO_SHAPES(type) ==
    CASE type = "I" ->
           << << <<0,0,0,0>>, <<1,1,1,1>>, <<0,0,0,0>>, <<0,0,0,0>> >>,
              << <<0,0,1,0>>, <<0,0,1,0>>, <<0,0,1,0>>, <<0,0,1,0>> >> >>
      [] type = "O" ->
           << << <<1,1>>, <<1,1>> >> >>
      [] type = "T" ->
           << << <<0,1,0>>, <<1,1,1>>, <<0,0,0>> >>,
              << <<0,1,0>>, <<0,1,1>>, <<0,1,0>> >>,
              << <<0,0,0>>, <<1,1,1>>, <<0,1,0>> >>,
              << <<0,1,0>>, <<1,1,0>>, <<0,1,0>> >> >>
      [] type = "S" ->
           << << <<0,1,1>>, <<1,1,0>>, <<0,0,0>> >>,
              << <<0,1,0>>, <<0,1,1>>, <<0,0,1>> >> >>
      [] type = "Z" ->
           << << <<1,1,0>>, <<0,1,1>>, <<0,0,0>> >>,
              << <<0,0,1>>, <<0,1,1>>, <<0,1,0>> >> >>
      [] type = "J" ->
           << << <<1,0,0>>, <<1,1,1>>, <<0,0,0>> >>,
              << <<0,1,1>>, <<0,1,0>>, <<0,1,0>> >>,
              << <<0,0,0>>, <<1,1,1>>, <<0,0,1>> >>,
              << <<0,1,0>>, <<0,1,0>>, <<1,1,0>> >> >>
      [] type = "L" ->
           << << <<0,0,1>>, <<1,1,1>>, <<0,0,0>> >>,
              << <<0,1,0>>, <<0,1,0>>, <<0,1,1>> >>,
              << <<0,0,0>>, <<1,1,1>>, <<1,0,0>> >>,
              << <<1,1,0>>, <<0,1,0>>, <<0,1,0>> >> >>

(***************************************************************************)
(* tetrominoes.ts                                                          *)
(***************************************************************************)

\* createTetromino(type, rotation = 0)
createTetromino(type, rotation) ==
    LET shapes == TETROMINO_SHAPES(type)
        shape  == shapes[(rotation % Len(shapes)) + 1]
    IN  [type     |-> type,
         shape    |-> shape,
         position |-> [x |-> (10 \div 2) - (Len(shape[1]) \div 2), y |-> 0],
         color    |-> TETROMINO_COLORS(type)]

\* shapes.findIndex(shape => JSON.stringify(shape) === JSON.stringify(t.shape)):
\* the 0-based index of the first equal shape, -1 when there is none.
findIndex(shapes, shape) ==
    LET hits == {i \in 1..Len(shapes) : shapes[i] = shape}
    IN  IF hits = {} THEN -1
        ELSE (CHOOSE i \in hits : \A j \in hits : i <= j) - 1

rotateTetromino(tetromino) ==
    LET shapes       == TETROMINO_SHAPES(tetromino.type)
        currentIndex == findIndex(shapes, tetromino.shape)
        nextIndex    == (currentIndex + 1) % Len(shapes)
    IN  [tetromino EXCEPT !.shape = shapes[nextIndex + 1]]

(***************************************************************************)
(* gameLogic                                                               *)
(***************************************************************************)

emptyRow == [x \in 1..BOARD_WIDTH |-> null]

createEmptyBoard == [y \in 1..BOARD_HEIGHT |-> emptyRow]

\* The occupied cells of a shape, as 0-based (x, y) offsets.
shapeCells(shape) ==
    {c \in (0..(Len(shape[1]) - 1)) \X (0..(Len(shape) - 1)) :
        shape[c[2] + 1][c[1] + 1] # 0}

\* A variant that also rejects cells above row 0.
isValidMove_RejectsAboveBoard(board, tetromino, newPosition) ==
    \A c \in shapeCells(tetromino.shape) :
        LET newX == newPosition.x + c[1]
            newY == newPosition.y + c[2]
        IN  /\ ~(newX < 0 \/ newX >= BOARD_WIDTH \/ newY >= BOARD_HEIGHT)
            /\ newY >= 0
            /\ board[newY + 1][newX + 1] = null

isValidMove(board, tetromino, newPosition) ==
    \A c \in shapeCells(tetromino.shape) :
        LET newX == newPosition.x + c[1]
            newY == newPosition.y + c[2]
        IN  /\ ~(newX < 0 \/ newX >= BOARD_WIDTH \/ newY >= BOARD_HEIGHT)
            /\ ~(newY >= 0 /\ board[newY + 1][newX + 1] # null)

\* Only cells with 0 <= boardY < BOARD_HEIGHT and 0 <= boardX < BOARD_WIDTH are
\* written: the new board is built cell by cell over exactly that range.
placePiece(board, tetromino) ==
    [y \in 1..BOARD_HEIGHT |->
        [x \in 1..BOARD_WIDTH |->
            IF /\ <<x - 1 - tetromino.position.x,
                    y - 1 - tetromino.position.y>> \in shapeCells(tetromino.shape)
            THEN tetromino.color
            ELSE board[y][x]]]

\* board[y].every(cell => cell !== null)
isFullLine(row) == \A x \in 1..Len(row) : row[x] # null

\* A variant whose loop stops one row short of the floor.
fullLinesOf_SkipsBottomRow(board) ==
    {y \in 0..(BOARD_HEIGHT - 2) : isFullLine(board[y + 1])}

\* The 0-based indices of the full lines.
fullLinesOf(board) == {y \in 0..(BOARD_HEIGHT - 1) : isFullLine(board[y + 1])}

\* board.filter((_, index) => !skip.includes(index)), from 0-based index `from`.
RECURSIVE filterRows(_, _, _)
filterRows(board, skip, from) ==
    IF from >= Len(board) THEN <<>>
    ELSE (IF from \in skip THEN <<>> ELSE <<board[from + 1]>>)
         \o filterRows(board, skip, from + 1)

\* A variant that puts the empty lines below the kept rows.
clearLines_AppendsAtBottom(board) ==
    LET fullLines == fullLinesOf(board)
    IN  IF Cardinality(fullLines) = 0
        THEN [newBoard |-> board, linesCleared |-> 0]
        ELSE [newBoard     |-> filterRows(board, fullLines, 0)
                               \o [i \in 1..Cardinality(fullLines) |-> emptyRow],
              linesCleared |-> Cardinality(fullLines)]

\* A variant that removes only the first full line it finds.
clearLines_FirstLineOnly(board) ==
    LET fullLines == fullLinesOf(board)
    IN  IF Cardinality(fullLines) = 0
        THEN [newBoard |-> board, linesCleared |-> 0]
        ELSE LET first == CHOOSE y \in fullLines : \A z \in fullLines : y <= z
             IN  [newBoard     |-> <<emptyRow>> \o filterRows(board, {first}, 0),
                  linesCleared |-> 1]

clearLines(board) ==
    LET fullLines == fullLinesOf(board)
    IN  IF Cardinality(fullLines) = 0
        THEN [newBoard |-> board, linesCleared |-> 0]
        ELSE [newBoard     |-> [i \in 1..Cardinality(fullLines) |-> emptyRow]
                               \o filterRows(board, fullLines, 0),
              linesCleared |-> Cardinality(fullLines)]

baseScores == <<0, 40, 100, 300, 1200>>

calculateScore(linesCleared, level) == baseScores[linesCleared + 1] * (level + 1)

\* A variant that rounds up.
calculateLevel_RoundsUp(totalLines) == (totalLines + 9) \div 10

calculateLevel(totalLines) == totalLines \div 10

Max(a, b) == IF a >= b THEN a ELSE b

getDropSpeed(level) == Max(50, 1000 - (level * 50))

RECURSIVE getGhostPosition(_, _)
getGhostPosition(board, tetromino) ==
    IF isValidMove(board, tetromino,
                   [tetromino.position EXCEPT !.y = tetromino.position.y + 1])
    THEN getGhostPosition(board,
             [tetromino EXCEPT !.position.y = tetromino.position.y + 1])
    ELSE tetromino.position

(***************************************************************************)
(* useTetris: the state of the hook                                        *)
(***************************************************************************)
VARIABLES
    gameState,    \* useState<GameState>
    gameStarted,  \* useRef(false)
    dropTimer,    \* useRef<Timeout | null>(null): the interval that calls dropPiece
    lastOp,       \* the handler that ran last
    lastArgs,     \* its arguments (<<dx, dy>> for movePiece)
    lastOut,      \* the branch it returned through, with the local it computed
    opening,      \* the opening being played (0: none, the calls are free)
    pc,           \* the next call of the opening
    steps,        \* free handler calls made so far
    pureCall      \* a direct call of a gameLogic function: name, arguments, result

vars == <<gameState, gameStarted, dropTimer, lastOp, lastArgs, lastOut, opening,
          pc, steps, pureCall>>

\* The variables of the hook and of its environment.
gameVars == <<gameState, gameStarted, dropTimer, lastOp, lastArgs, lastOut, opening,
              pc, steps>>

(***************************************************************************)
(* The environment.  The player and the timer first play an opening, a     *)
(* fixed sequence of handler calls and random draws from the constructed   *)
(* state; after it the player and the timer are free, for MaxSteps calls   *)
(* in all.  A call is made where the program makes it: by the keydown      *)
(* listener, by a button of TetrisGame, or by the interval timer.          *)
(***************************************************************************)
MaxSteps == 3

\* Sequences of calls.  A call is <<handler, arguments...>>; the argument of
\* dropPiece is the kind getRandomTetrominoType returns if the call locks.
\* Start Game, then P twice: the pause and the resume run the timer effect,
\* which the first start does not, and the resume arms the interval.
start(first, second) ==
    << <<"initializeGame", first, second>>, <<"togglePause">>, <<"togglePause">> >>

RECURSIVE rotations(_)
rotations(n) == IF n = 0 THEN <<>> ELSE << <<"rotatePiece">> >> \o rotations(n - 1)

\* dx moves to the right (dx > 0) or -dx moves to the left (dx < 0).
RECURSIVE moves(_)
moves(dx) ==
    IF dx = 0 THEN <<>>
    ELSE IF dx > 0 THEN << <<"movePiece", 1, 0>> >> \o moves(dx - 1)
    ELSE << <<"movePiece", -1, 0>> >> \o moves(dx + 1)

\* n timer ticks while the piece is falling.
RECURSIVE ticks(_)
ticks(n) == IF n = 0 THEN <<>> ELSE << <<"dropPiece", "I">> >> \o ticks(n - 1)

steer(rot, dx) == rotations(rot) \o moves(dx)

\* One piece played to its lock: steered, hard-dropped, then locked by the next
\* tick, which draws `draw` for the new nextPiece.
play(rot, dx, draw) == steer(rot, dx) \o << <<"hardDrop">>, <<"dropPiece", draw>> >>

\* n horizontal I pieces side by side in columns 0..3 and 4..7, n / 2 rows.
RECURSIVE flatRows(_)
flatRows(n) ==
    IF n = 0 THEN <<>> ELSE play(0, -3, "I") \o play(0, 1, "I") \o flatRows(n - 2)

\* Ten upright I pieces side by side: the tenth completes rows 16..19 and the
\* board is empty again.
tenColumns ==
    play(1, -5, "I") \o play(1, -4, "I") \o play(1, -3, "I") \o play(1, -2, "I")
    \o play(1, -1, "I") \o play(1, 0, "I") \o play(1, 1, "I") \o play(1, 2, "I")
    \o play(1, 3, "I") \o play(1, 4, "I")

RECURSIVE tetrises(_)
tetrises(n) == IF n = 0 THEN <<>> ELSE tenColumns \o tetrises(n - 1)

\* Rows 16..19 full in columns 0..8 and column 9 empty, after n boards cleared
\* by tenColumns; the current I piece is upright above column 9.
well(n) == start("I", "I") \o tetrises(n) \o flatRows(8) \o play(1, 3, "I")
           \o steer(1, 4)

\* Rows 17..19 full in columns 0..8, and one cell of row 16.
threeRows == start("I", "I") \o flatRows(6) \o play(1, 3, "I") \o steer(1, 4)

\* The bottom row (two rows) full in columns 0..7; the current O piece is above
\* columns 8..9.
oneRow == start("I", "I") \o play(0, -3, "O") \o play(0, 1, "T") \o steer(0, 4)

twoRows == start("I", "I") \o flatRows(2) \o play(0, -3, "O") \o play(0, 1, "T")
           \o steer(0, 4)

\* Four upright I pieces stacked in column 5; a fifth stands on them in rows
\* 0..3 and the next piece is of kind `next`.
tower(next) == start("I", "I") \o play(1, 0, "I") \o play(1, 0, "I")
               \o play(1, 0, "I") \o play(1, 0, next) \o rotations(1)

\* The two bottom rows full in columns 1..9, column 0 empty; the current I piece
\* lies flat above columns 0..3.
ledge == start("I", "I") \o play(0, -2, "I") \o play(0, 2, "I")
         \o play(0, -2, "I") \o play(0, 2, "I") \o play(1, 4, "I")
         \o steer(0, -3)

\* Eight lines cleared, then oneRow (twoRows): the lock of the O piece brings
\* the lines to 9 (10).
nineLines == start("I", "I") \o tetrises(2) \o play(0, -3, "O") \o play(0, 1, "T")
             \o steer(0, 4)

tenLines == start("I", "I") \o tetrises(2) \o flatRows(2) \o play(0, -3, "O")
            \o play(0, 1, "T") \o steer(0, 4)

\* Eight rows full in columns 0..7, then O pieces dropped into columns 8..9,
\* two rows cleared by each; the fourth O is above the last two rows.
eightRows == start("I", "I") \o flatRows(14) \o play(0, -3, "O") \o play(0, 1, "O")
             \o play(0, 4, "O") \o play(0, 4, "O") \o play(0, 4, "I")
             \o steer(0, 4)

\* One flat I piece on the floor and four upright I pieces on each of columns
\* 4, 5 and 6: the columns reach row 3, and the current I piece lies flat in
\* row 1 above them.
spire == start("I", "I") \o play(0, 0, "I")
         \o play(1, -1, "I") \o play(1, -1, "I") \o play(1, -1, "I") \o play(1, -1, "I")
         \o play(1, 1, "I") \o play(1, 1, "I") \o play(1, 1, "I") \o play(1, 1, "I")
         \o play(1, 0, "I") \o play(1, 0, "I") \o play(1, 0, "I") \o play(1, 0, "I")

Openings ==
    << <<>>, ledge, nineLines, tenLines, eightRows, spire,
       well(0), well(0) \o ticks(15), well(2), well(3),
       threeRows, oneRow, twoRows,
       tower("I"), tower("O"), tower("T"), tower("S"),
       start("T", "O") \o steer(1, -5),
       start("T", "O") \o steer(3, 4),
       start("I", "O") \o steer(1, -5),
       start("I", "O") \o steer(1, 4),
       start("J", "L") \o steer(2, -4),
       start("S", "Z") \o steer(1, 4) >>

\* Whether handler op may be called now: the opening's next call, or a free one.
Turn(op) ==
    IF opening = 0 THEN steps < MaxSteps ELSE Openings[opening][pc][1] = op

\* The opening fixes argument i of the call (1-based, after the handler name).
Scripted(i, value) == opening # 0 => Openings[opening][pc][i + 1] = value

Advance ==
    /\ UNCHANGED pureCall
    /\ IF opening = 0
       THEN /\ steps' = steps + 1
            /\ UNCHANGED <<opening, pc>>
       ELSE /\ UNCHANGED steps
            /\ IF pc < Len(Openings[opening])
               THEN /\ pc' = pc + 1
                    /\ UNCHANGED opening
               ELSE /\ pc' = 0
                    /\ opening' = 0

\* The (dx, dy) the keyboard handler passes to movePiece.
MoveArgs == {<<-1, 0>>, <<1, 0>>, <<0, 1>>}

\* A variant of the guard that forgets the pause.
Blocked_IgnoresPause(prev) ==
    prev.currentPiece = NoPiece \/ prev.isGameOver

\* if (!prev.currentPiece || prev.isGameOver || prev.isPaused) return prev;
Blocked(prev) ==
    prev.currentPiece = NoPiece \/ prev.isGameOver \/ prev.isPaused

\* No interval is set.
NoTimer == [armed |-> FALSE, delay |-> 0]

\* The auto-drop effect: what dropTimer holds once the cleanup of the previous
\* run and the body of this one have run, for the ref and the state rendered.
timerEffect(started, state) ==
    IF ~started \/ state.isGameOver \/ state.isPaused
    THEN NoTimer
    ELSE [armed |-> TRUE, delay |-> getDropSpeed(state.level)]

\* A variant of the dependency list without gameState.level.
timerDepsChanged_OmitsLevel(prev, state) ==
    \/ prev.isGameOver # state.isGameOver
    \/ prev.isPaused # state.isPaused

\* [gameState.level, gameState.isGameOver, gameState.isPaused, dropPiece]:
\* dropPiece is a callback without dependencies and never changes.
timerDepsChanged(prev, state) ==
    \/ prev.level # state.level
    \/ prev.isGameOver # state.isGameOver
    \/ prev.isPaused # state.isPaused

\* The render that follows a state update: the effect runs again only if one of
\* its dependencies changed.  The update, the render and the effect are one
\* step: no timer or key event is handled between them.
Render ==
    dropTimer' = IF timerDepsChanged(gameState, gameState')
                 THEN timerEffect(gameStarted', gameState')
                 ELSE dropTimer

\* A variant of the listener's guard that forgets the gameStarted ref.
KeyboardEnabled_IgnoresStart == ~gameState.isGameOver

\* if (!gameStarted.current || gameState.isGameOver) return;
KeyboardEnabled == gameStarted /\ ~gameState.isGameOver

\* The Pause/Resume button: rendered with the board, disabled when the game is
\* over.
PauseButtonEnabled ==
    /\ ~(gameState.currentPiece = NoPiece /\ ~gameState.isGameOver)
    /\ ~gameState.isGameOver

InitialGameState ==
    [board        |-> createEmptyBoard,
     currentPiece |-> NoPiece,
     nextPiece    |-> NoPiece,
     score        |-> 0,
     level        |-> 0,
     lines        |-> 0,
     isGameOver   |-> FALSE,
     isPaused     |-> FALSE]

NoCall == [fn |-> "none", args |-> <<>>, result |-> <<>>]

Init ==
    /\ pureCall = NoCall
    /\ gameState = InitialGameState
    /\ gameStarted = FALSE
    /\ dropTimer = NoTimer
    /\ lastOp = "none"
    /\ lastArgs = <<>>
    /\ lastOut = <<"none", 0>>
    /\ \E o \in 1..Len(Openings) :
           IF Openings[o] = <<>> THEN opening = 0 /\ pc = 0
                                 ELSE opening = o /\ pc = 1
    /\ steps = 0

\* A variant that carries the pause over, as a spread of the old state would.
StartedGameState_KeepsPause(first, second) ==
    [board        |-> createEmptyBoard,
     currentPiece |-> createTetromino(first, 0),
     nextPiece    |-> createTetromino(second, 0),
     score        |-> 0,
     level        |-> 0,
     lines        |-> 0,
     isGameOver   |-> FALSE,
     isPaused     |-> gameState.isPaused]

\* The state initializeGame sets, for the two kinds getRandomTetrominoType drew.
StartedGameState(first, second) ==
    [board        |-> createEmptyBoard,
     currentPiece |-> createTetromino(first, 0),
     nextPiece    |-> createTetromino(second, 0),
     score        |-> 0,
     level        |-> 0,
     lines        |-> 0,
     isGameOver   |-> FALSE,
     isPaused     |-> FALSE]

\* The screen TetrisGame shows for a state: 0 the start screen, 1 the board in
\* play, 2 the pause overlay, 3 the game-over overlay.
Phase(state) ==
    IF state.isGameOver THEN 3
    ELSE IF state.currentPiece = NoPiece THEN 0
    ELSE IF state.isPaused THEN 2
    ELSE 1

\* initializeGame / resetGame: the Start Game button of the start screen, the
\* Reset button beside the board, the Play Again button of the game-over
\* overlay.  The branch records the screen it was called from.
InitializeGame ==
    /\ Turn("initializeGame")
    /\ \E first \in Kinds, second \in Kinds :
           /\ Scripted(1, first)
           /\ Scripted(2, second)
           /\ gameState' = StartedGameState(first, second)
    /\ gameStarted' = TRUE
    /\ Render
    /\ lastOp' = "initializeGame"
    /\ lastArgs' = <<>>
    /\ lastOut' = <<"started", Phase(gameState)>>
    /\ Advance

\* A variant that adopts the new position without checking it.
movePieceResult_Unchecked(prev, dx, dy) ==
    IF prev.currentPiece = NoPiece \/ prev.isGameOver \/ prev.isPaused
    THEN [state |-> prev, out |-> <<"blocked", 0>>]
    ELSE [state |-> [prev EXCEPT !.currentPiece.position =
                        [x |-> prev.currentPiece.position.x + dx,
                         y |-> prev.currentPiece.position.y + dy]],
          out   |-> <<"moved", 0>>]

\* The updater of movePiece(dx, dy): the new state and the branch taken.
movePieceResult(prev, dx, dy) ==
    IF Blocked(prev) THEN [state |-> prev, out |-> <<"blocked", 0>>]
    ELSE LET newPosition == [x |-> prev.currentPiece.position.x + dx,
                             y |-> prev.currentPiece.position.y + dy]
         IN  IF isValidMove(prev.board, prev.currentPiece, newPosition)
             THEN [state |-> [prev EXCEPT !.currentPiece.position = newPosition],
                   out   |-> <<"moved", 0>>]
             ELSE [state |-> prev, out |-> <<"rejected", 0>>]

\* ArrowLeft, ArrowRight, ArrowDown
MovePiece ==
    /\ Turn("movePiece")
    /\ KeyboardEnabled
    /\ \E a \in MoveArgs :
           LET r == movePieceResult(gameState, a[1], a[2])
           IN  /\ Scripted(1, a[1])
               /\ Scripted(2, a[2])
               /\ gameState' = r.state
               /\ lastOut' = r.out
               /\ lastArgs' = a
    /\ lastOp' = "movePiece"
    /\ Advance
    /\ UNCHANGED gameStarted
    /\ Render

\* A variant that tries the two-column kicks first.
kicks_WideFirst ==
    << [x |-> 2, y |-> 0], [x |-> -2, y |-> 0], [x |-> 1, y |-> 0],
       [x |-> -1, y |-> 0], [x |-> 0, y |-> -1] >>

\* const kicks = [...]
kicks == << [x |-> 1, y |-> 0], [x |-> -1, y |-> 0], [x |-> 0, y |-> -1],
            [x |-> 2, y |-> 0], [x |-> -2, y |-> 0] >>

\* for (const kick of kicks) { ... }: the state for the first valid kick at or
\* after index i (1-based), prev when there is none.
RECURSIVE tryKicks(_, _, _)
tryKicks(prev, rotatedPiece, i) ==
    IF i > Len(kicks) THEN [state |-> prev, out |-> <<"rejected", 0>>]
    ELSE LET kickedPosition == [x |-> rotatedPiece.position.x + kicks[i].x,
                                y |-> rotatedPiece.position.y + kicks[i].y]
         IN  IF isValidMove(prev.board, rotatedPiece, kickedPosition)
             THEN [state |-> [prev EXCEPT !.currentPiece =
                                 [rotatedPiece EXCEPT !.position = kickedPosition]],
                   out   |-> <<"kicked", i>>]
             ELSE tryKicks(prev, rotatedPiece, i + 1)

\* A variant that adopts the rotated piece without checking it.
rotatePieceResult_Unchecked(prev) ==
    IF Blocked(prev) THEN [state |-> prev, out |-> <<"blocked", 0>>]
    ELSE [state |-> [prev EXCEPT !.currentPiece = rotateTetromino(prev.currentPiece)],
          out   |-> <<"rotated", 0>>]

rotatePieceResult(prev) ==
    IF Blocked(prev) THEN [state |-> prev, out |-> <<"blocked", 0>>]
    ELSE LET rotatedPiece == rotateTetromino(prev.currentPiece)
         IN  IF isValidMove(prev.board, rotatedPiece, rotatedPiece.position)
             THEN [state |-> [prev EXCEPT !.currentPiece = rotatedPiece],
                   out   |-> <<"rotated", 0>>]
             ELSE tryKicks(prev, rotatedPiece, 1)

\* ArrowUp
RotatePiece ==
    /\ Turn("rotatePiece")
    /\ KeyboardEnabled
    /\ LET r == rotatePieceResult(gameState)
       IN  /\ gameState' = r.state
           /\ lastOut' = r.out
    /\ lastOp' = "rotatePiece"
    /\ lastArgs' = <<>>
    /\ Advance
    /\ UNCHANGED gameStarted
    /\ Render

\* A variant of the loop that tests the position it is at, not the one below.
RECURSIVE hardDropLoop_TestsCurrentRow(_, _, _, _)
hardDropLoop_TestsCurrentRow(board, piece, newPosition, dropDistance) ==
    IF isValidMove(board, piece, newPosition)
    THEN hardDropLoop_TestsCurrentRow(board, piece,
                      [newPosition EXCEPT !.y = newPosition.y + 1],
                      dropDistance + 1)
    ELSE [newPosition |-> newPosition, dropDistance |-> dropDistance]

\* while (isValidMove(board, piece, {...newPosition, y: newPosition.y + 1}))
\*   { newPosition.y++; dropDistance++; }
RECURSIVE hardDropLoop(_, _, _, _)
hardDropLoop(board, piece, newPosition, dropDistance) ==
    IF isValidMove(board, piece, [newPosition EXCEPT !.y = newPosition.y + 1])
    THEN hardDropLoop(board, piece,
                      [newPosition EXCEPT !.y = newPosition.y + 1],
                      dropDistance + 1)
    ELSE [newPosition |-> newPosition, dropDistance |-> dropDistance]

\* A variant that awards one point per row.
hardDropResult_SingleBonus(prev) ==
    IF Blocked(prev) THEN [state |-> prev, out |-> <<"blocked", 0>>]
    ELSE LET l == hardDropLoop(prev.board, prev.currentPiece,
                               prev.currentPiece.position, 0)
         IN  [state |-> [prev EXCEPT !.currentPiece.position = l.newPosition,
                                     !.score = prev.score + l.dropDistance],
              out   |-> <<"dropped", l.dropDistance>>]

hardDropResult(prev) ==
    IF Blocked(prev) THEN [state |-> prev, out |-> <<"blocked", 0>>]
    ELSE LET l == hardDropLoop(prev.board, prev.currentPiece,
                               prev.currentPiece.position, 0)
         IN  [state |-> [prev EXCEPT !.currentPiece.position = l.newPosition,
                                     !.score = prev.score + l.dropDistance * 2],
              out   |-> <<"dropped", l.dropDistance>>]

\* Space
HardDrop ==
    /\ Turn("hardDrop")
    /\ KeyboardEnabled
    /\ LET r == hardDropResult(gameState)
       IN  /\ gameState' = r.state
           /\ lastOut' = r.out
    /\ lastOp' = "hardDrop"
    /\ lastArgs' = <<>>
    /\ Advance
    /\ UNCHANGED gameStarted
    /\ Render

\* A variant that sets the new nextPiece whether or not the game is over.
lockResult_AlwaysDrawsNext(prev, randomType) ==
    LET cleared    == clearLines(placePiece(prev.board, prev.currentPiece))
        newLines   == prev.lines + cleared.linesCleared
        isGameOver == ~isValidMove(cleared.newBoard, prev.nextPiece,
                                   prev.nextPiece.position)
    IN  [state |-> [prev EXCEPT
                       !.board        = cleared.newBoard,
                       !.currentPiece = IF isGameOver THEN NoPiece
                                                      ELSE prev.nextPiece,
                       !.nextPiece    = createTetromino(randomType, 0),
                       !.score        = prev.score
                                        + calculateScore(cleared.linesCleared,
                                                         prev.level),
                       !.level        = calculateLevel(newLines),
                       !.lines        = newLines,
                       !.isGameOver   = isGameOver],
         out   |-> <<IF isGameOver THEN "gameover" ELSE "locked",
                     cleared.linesCleared>>]

\* A variant that keeps the pieces when the game is over.
lockResult_KeepsPiecesOnGameOver(prev, randomType) ==
    LET cleared    == clearLines(placePiece(prev.board, prev.currentPiece))
        newLines   == prev.lines + cleared.linesCleared
        isGameOver == ~isValidMove(cleared.newBoard, prev.nextPiece,
                                   prev.nextPiece.position)
    IN  [state |-> [prev EXCEPT
                       !.board        = cleared.newBoard,
                       !.currentPiece = prev.nextPiece,
                       !.nextPiece    = createTetromino(randomType, 0),
                       !.score        = prev.score
                                        + calculateScore(cleared.linesCleared,
                                                         prev.level),
                       !.level        = calculateLevel(newLines),
                       !.lines        = newLines,
                       !.isGameOver   = isGameOver],
         out   |-> <<IF isGameOver THEN "gameover" ELSE "locked",
                     cleared.linesCleared>>]

\* A variant that multiplies by the level after the update.
lockResult_ScoresAtNewLevel(prev, randomType) ==
    LET cleared    == clearLines(placePiece(prev.board, prev.currentPiece))
        newLines   == prev.lines + cleared.linesCleared
        newLevel   == calculateLevel(newLines)
        isGameOver == ~isValidMove(cleared.newBoard, prev.nextPiece,
                                   prev.nextPiece.position)
    IN  [state |-> [prev EXCEPT
                       !.board        = cleared.newBoard,
                       !.currentPiece = IF isGameOver THEN NoPiece
                                                      ELSE prev.nextPiece,
                       !.nextPiece    = IF isGameOver THEN NoPiece
                                        ELSE createTetromino(randomType, 0),
                       !.score        = prev.score
                                        + calculateScore(cleared.linesCleared,
                                                         newLevel),
                       !.level        = newLevel,
                       !.lines        = newLines,
                       !.isGameOver   = isGameOver],
         out   |-> <<IF isGameOver THEN "gameover" ELSE "locked",
                     cleared.linesCleared>>]

\* The lock branch of dropPiece, for the kind getRandomTetrominoType drew.
lockResult(prev, randomType) ==
    LET newBoard      == placePiece(prev.board, prev.currentPiece)
        cleared       == clearLines(newBoard)
        clearedBoard  == cleared.newBoard
        linesCleared  == cleared.linesCleared
        newLines      == prev.lines + linesCleared
        newLevel      == calculateLevel(newLines)
        scoreIncrease == calculateScore(linesCleared, prev.level)
        nextPiece     == createTetromino(randomType, 0)
        isGameOver    == ~isValidMove(clearedBoard, prev.nextPiece,
                                      prev.nextPiece.position)
    IN  [state |-> [prev EXCEPT
                       !.board        = clearedBoard,
                       !.currentPiece = IF isGameOver THEN NoPiece
                                                      ELSE prev.nextPiece,
                       !.nextPiece    = IF isGameOver THEN NoPiece ELSE nextPiece,
                       !.score        = prev.score + scoreIncrease,
                       !.level        = newLevel,
                       !.lines        = newLines,
                       !.isGameOver   = isGameOver],
         out   |-> <<IF isGameOver THEN "gameover" ELSE "locked", linesCleared>>]

\* A variant that awards a point for the gravity step.
dropPieceResult_ScoresStep(prev, randomType) ==
    IF Blocked(prev) THEN [state |-> prev, out |-> <<"blocked", 0>>]
    ELSE LET newPosition == [x |-> prev.currentPiece.position.x,
                             y |-> prev.currentPiece.position.y + 1]
         IN  IF isValidMove(prev.board, prev.currentPiece, newPosition)
             THEN [state |-> [prev EXCEPT !.currentPiece.position = newPosition,
                                          !.score = prev.score + 1],
                   out   |-> <<"moved", 0>>]
             ELSE lockResult(prev, randomType)

dropPieceResult(prev, randomType) ==
    IF Blocked(prev) THEN [state |-> prev, out |-> <<"blocked", 0>>]
    ELSE LET newPosition == [x |-> prev.currentPiece.position.x,
                             y |-> prev.currentPiece.position.y + 1]
         IN  IF isValidMove(prev.board, prev.currentPiece, newPosition)
             THEN [state |-> [prev EXCEPT !.currentPiece.position = newPosition],
                   out   |-> <<"moved", 0>>]
             ELSE lockResult(prev, randomType)

\* The piece rests: dropPiece takes its lock branch, the only one that calls
\* getRandomTetrominoType.
Resting(prev) ==
    /\ ~Blocked(prev)
    /\ ~isValidMove(prev.board, prev.currentPiece,
                    [x |-> prev.currentPiece.position.x,
                     y |-> prev.currentPiece.position.y + 1])

\* dropPiece, called by the interval timer.
DropPiece ==
    /\ Turn("dropPiece")
    /\ dropTimer.armed
    /\ \E randomType \in (IF Resting(gameState) THEN Kinds ELSE {"I"}) :
           LET r == dropPieceResult(gameState, randomType)
           IN  /\ Scripted(1, randomType)
               /\ gameState' = r.state
               /\ lastOut' = r.out
    /\ lastOp' = "dropPiece"
    /\ lastArgs' = <<>>
    /\ Advance
    /\ UNCHANGED gameStarted
    /\ Render

\* A variant that pauses but never resumes.
togglePauseResult_SetsPaused(prev) == [prev EXCEPT !.isPaused = TRUE]

\* prev => ({...prev, isPaused: !prev.isPaused})
togglePauseResult(prev) == [prev EXCEPT !.isPaused = ~prev.isPaused]

\* KeyP, or the Pause/Resume button.
TogglePause ==
    /\ Turn("togglePause")
    /\ KeyboardEnabled \/ PauseButtonEnabled
    /\ gameState' = togglePauseResult(gameState)
    /\ lastOp' = "togglePause"
    /\ lastArgs' = <<>>
    /\ lastOut' = <<"toggled", 0>>
    /\ Advance
    /\ UNCHANGED gameStarted
    /\ Render

Next ==
    \/ InitializeGame
    \/ MovePiece
    \/ RotatePiece
    \/ HardDrop
    \/ DropPiece
    \/ TogglePause

Spec == Init /\ [][Next]_vars

(***************************************************************************)
(* gameLogic called directly: isValidMove and clearLines on boards that    *)
(* need not come from a game.                                              *)
(***************************************************************************)
MaxBand == 3
MaxOut == 4

\* Rows a test board is made of.
rowPattern(p) ==
    CASE p = 1 -> emptyRow
      [] p = 2 -> [x \in 1..BOARD_WIDTH |-> TETROMINO_COLORS("I")]
      [] p = 3 -> [x \in 1..BOARD_WIDTH |->
                      IF x % 2 = 0 THEN TETROMINO_COLORS("T")
                                   ELSE TETROMINO_COLORS("O")]
      [] p = 4 -> [x \in 1..BOARD_WIDTH |->
                      IF x = BOARD_WIDTH THEN null ELSE TETROMINO_COLORS("J")]
      [] p = 5 -> [x \in 1..BOARD_WIDTH |->
                      IF x = 1 THEN TETROMINO_COLORS("L") ELSE null]

RowPatterns == 1..5

Bands(maxLen) == UNION {[1..n -> RowPatterns] : n \in 1..maxLen}

BandModes == {"top", "bottom", "tiled"}

\* A board of BOARD_HEIGHT rows: the band at the top, at the bottom, or repeated
\* over the whole board; every other row is empty.
testBoard(mode, band) ==
    [y \in 1..BOARD_HEIGHT |->
        CASE mode = "top" ->
               IF y <= Len(band) THEN rowPattern(band[y]) ELSE emptyRow
          [] mode = "bottom" ->
               IF y > BOARD_HEIGHT - Len(band)
               THEN rowPattern(band[y - (BOARD_HEIGHT - Len(band))])
               ELSE emptyRow
          [] mode = "tiled" ->
               rowPattern(band[((y - 1) % Len(band)) + 1])]

TestBoards == {testBoard(mode, band) : mode \in BandModes, band \in Bands(MaxBand)}

PureInit ==
    /\ pureCall = NoCall
    /\ gameState = InitialGameState
    /\ gameStarted = FALSE
    /\ dropTimer = NoTimer
    /\ lastOp = "none"
    /\ lastArgs = <<>>
    /\ lastOut = <<"none", 0>>
    /\ opening = 0
    /\ pc = 0
    /\ steps = 0

\* The boards isValidMove is called on: <<mode, band>>.
ValidMoveBoards ==
    {<<"tiled", <<1>>>>, <<"tiled", <<4>>>>, <<"top", <<3>>>>, <<"top", <<5>>>>,
     <<"bottom", <<3>>>>, <<"bottom", <<5>>>>}

\* isValidMove(board, tetromino, {x, y}) for a piece of any kind and rotation.
CallIsValidMove ==
    /\ pureCall.fn = "none"
    /\ \E b \in ValidMoveBoards, type \in Kinds,
          x \in (0 - MaxOut)..(BOARD_WIDTH - 1),
          y \in (0 - MaxOut)..(BOARD_HEIGHT - 1) :
         \E rotation \in 0..(Len(TETROMINO_SHAPES(type)) - 1) :
           pureCall' =
               [fn     |-> "isValidMove",
                args   |-> <<b[1], b[2], type, rotation, x, y>>,
                result |-> isValidMove(testBoard(b[1], b[2]),
                                       createTetromino(type, rotation),
                                       [x |-> x, y |-> y])]
    /\ UNCHANGED gameVars

\* clearLines(board), on a test board or on the board the last call returned
\* (args: the board, where it comes from, and the lines the call that returned
\* it had cleared).
CallClearLines ==
    /\ pureCall.fn \in {"none", "clearLines"}
    /\ \E board \in (IF pureCall.fn = "clearLines"
                     THEN {pureCall.result.newBoard}
                     ELSE TestBoards) :
           pureCall' =
               [fn     |-> "clearLines",
                args   |-> IF pureCall.fn = "clearLines"
                           THEN <<board, "output", pureCall.result.linesCleared>>
                           ELSE <<board, "test", 0>>,
                result |-> clearLines(board)]
    /\ UNCHANGED gameVars

PureNext ==
    \/ CallIsValidMove
    \/ CallClearLines

PureSpec == PureInit /\ [][PureNext]_vars

(***************************************************************************)
(* Properties.  A step of Spec is one handler call: lastOp' names the      *)
(* handler, gameState is the state it was given and gameState' the state   *)
(* it returned.                                                            *)
(***************************************************************************)

\* A game is in progress and accepts moves.
IsPlaying(s) == s.currentPiece # NoPiece /\ ~s.isGameOver /\ ~s.isPaused

\* The piece p at position (x, y).
PieceAt(p, x, y) == [p EXCEPT !.position = [x |-> x, y |-> y]]

\* p fits on board b where it stands.
Fits(b, p) == isValidMove(b, p, p.position)

\* The current piece of s cannot descend: the next tick locks it.
LocksNow(s) ==
    /\ IsPlaying(s)
    /\ ~Fits(s.board, PieceAt(s.currentPiece, s.currentPiece.position.x,
                              s.currentPiece.position.y + 1))

\* The rows (1-based) of b with no empty cell.
CompletedRows(b) ==
    {y \in 1..Len(b) : \A x \in 1..Len(b[y]) : b[y][x] # null}

\* The lowest board row (0-based) the piece p occupies.
LowestRow(p) ==
    LET rows == {p.position.y + c[2] : c \in shapeCells(p.shape)}
    IN  CHOOSE r \in rows : \A q \in rows : q <= r

C2_LockPromotesOrEndsGame ==
    [][(lastOp' = "dropPiece" /\ LocksNow(gameState))
       => LET cleared == clearLines(placePiece(gameState.board,
                                               gameState.currentPiece))
              lines   == gameState.lines + cleared.linesCleared
          IN  /\ gameState'.board = cleared.newBoard
              /\ gameState'.lines = lines
              /\ gameState'.level = calculateLevel(lines)
              /\ gameState'.score =
                     gameState.score
                     + calculateScore(cleared.linesCleared, gameState.level)
              /\ gameState'.isPaused = gameState.isPaused
              /\ IF ~Fits(cleared.newBoard, gameState.nextPiece)
                 THEN /\ gameState'.isGameOver = TRUE
                      /\ gameState'.currentPiece = NoPiece
                      /\ gameState'.nextPiece = NoPiece
                 ELSE /\ gameState'.isGameOver = FALSE
                      /\ gameState'.currentPiece = gameState.nextPiece
                      /\ \E type \in Kinds :
                             gameState'.nextPiece = createTetromino(type, 0)]_vars

\* A tick has just ended the game, on a board with stamped cells.
C2_Witness ==
    /\ lastOp = "dropPiece"
    /\ lastOut[1] = "gameover"
    /\ gameState.isGameOver
    /\ gameState.currentPiece = NoPiece
    /\ gameState.nextPiece = NoPiece
    /\ gameState.board # createEmptyBoard

\* C3: a lock that completes n rows adds n to lines, sets level to
\* floor(lines / 10) and adds scoreTable[n] * (old level + 1) to the score.
C3_LockCounters ==
    [][(lastOp' = "dropPiece" /\ LocksNow(gameState))
       => LET n == Cardinality(CompletedRows(placePiece(gameState.board,
                                                        gameState.currentPiece)))
          IN  /\ gameState'.lines = gameState.lines + n
              /\ gameState'.level = gameState'.lines \div 10
              /\ gameState'.score =
                     gameState.score
                     + <<0, 40, 100, 300, 1200>>[n + 1] * (gameState.level + 1)]_vars

\* A lock has cleared four rows and raised the level from 0 to 1.
C3_Witness ==
    /\ lastOp = "dropPiece"
    /\ lastOut = <<"locked", 4>>
    /\ gameState.lines = 12
    /\ gameState.level = 1

\* The current piece of s is as spawned, on an empty board, in a running game.
FreshOnEmptyBoard(s) ==
    /\ IsPlaying(s)
    /\ s.board = createEmptyBoard
    /\ s.currentPiece = createTetromino(s.currentPiece.type, 0)

\* C4 (as stated): hardDrop of a freshly spawned piece on an empty board leaves
\* its lowest row at y = 19, with dropDistance = 19 and 38 points added.
C4_Original ==
    [][(lastOp' = "hardDrop" /\ FreshOnEmptyBoard(gameState))
       => /\ LowestRow(gameState'.currentPiece) = BOARD_HEIGHT - 1
          /\ gameState'.currentPiece.position.y
             - gameState.currentPiece.position.y = 19
          /\ gameState'.score = gameState.score + 38]_vars

\* C4 (amended): hardDrop of a freshly spawned piece on an empty board leaves
\* its lowest row at y = 19, with dropDistance = 18 and 36 points added.
C4_HardDropOnEmptyBoard ==
    [][(lastOp' = "hardDrop" /\ FreshOnEmptyBoard(gameState))
       => /\ LowestRow(gameState'.currentPiece) = BOARD_HEIGHT - 1
          /\ gameState'.currentPiece.position.y
             - gameState.currentPiece.position.y = 18
          /\ lastOut' = <<"dropped", 18>>
          /\ gameState'.score = gameState.score + 36]_vars

\* A freshly spawned piece was hard-dropped to the bottom of an empty board.
C4_Witness ==
    /\ lastOp = "hardDrop"
    /\ gameState.board = createEmptyBoard
    /\ gameState.currentPiece # NoPiece
    /\ gameState.currentPiece =
           PieceAt(createTetromino(gameState.currentPiece.type, 0),
                   createTetromino(gameState.currentPiece.type, 0).position.x, 18)
    /\ gameState.score = 36

\* C5: hardDrop in a running game moves the piece down d rows, where every
\* descent up to d is valid and one more is not (the ghost position), keeps x,
\* shape and kind, adds 2 * d to the score and changes nothing else: the board
\* is not stamped.
C5_HardDropDescends ==
    [][(lastOp' = "hardDrop" /\ IsPlaying(gameState))
       => LET p == gameState.currentPiece
              d == gameState'.currentPiece.position.y - p.position.y
          IN  /\ d >= 0
              /\ \A k \in 1..d :
                     Fits(gameState.board, PieceAt(p, p.position.x, p.position.y + k))
              /\ ~Fits(gameState.board,
                       PieceAt(p, p.position.x, p.position.y + d + 1))
              /\ gameState'.currentPiece.position =
                     getGhostPosition(gameState.board, p)
              /\ gameState' =
                     [gameState EXCEPT
                         !.currentPiece.position.y = p.position.y + d,
                         !.score = gameState.score + 2 * d]]_vars

\* A piece was hard-dropped several rows onto a board that holds locked cells.
C5_Witness ==
    /\ lastOp = "hardDrop"
    /\ lastOut[1] = "dropped"
    /\ lastOut[2] > 0
    /\ lastOut[2] < 18
    /\ gameState.board # createEmptyBoard
    /\ IsPlaying(gameState)

\* The offsets rotation tries, in order.
RotationOffsets == << <<0, 0>>, <<1, 0>>, <<-1, 0>>, <<0, -1>>, <<2, 0>>, <<-2, 0>> >>

\* The rotation state that follows p's in the catalog of its kind.
NextRotation(p) ==
    LET shapes == TETROMINO_SHAPES(p.type)
        i      == CHOOSE j \in 1..Len(shapes) : shapes[j] = p.shape
    IN  shapes[(i % Len(shapes)) + 1]

\* p in its next rotation state, shifted by the k-th offset.
RotationCandidate(p, k) ==
    [p EXCEPT !.shape = NextRotation(p),
              !.position = [x |-> p.position.x + RotationOffsets[k][1],
                            y |-> p.position.y + RotationOffsets[k][2]]]

\* C6: rotatePiece in a running game adopts the next rotation state at the first
\* of the six offsets where it fits; if it fits at none the state is unchanged.
C6_RotateFirstValidOffset ==
    [][(lastOp' = "rotatePiece" /\ IsPlaying(gameState))
       => LET p    == gameState.currentPiece
              fits == {k \in 1..Len(RotationOffsets) :
                          Fits(gameState.board, RotationCandidate(p, k))}
          IN  IF fits = {}
              THEN gameState' = gameState
              ELSE LET first == CHOOSE k \in fits : \A j \in fits : k <= j
                   IN  gameState' =
                           [gameState EXCEPT
                               !.currentPiece = RotationCandidate(p, first)]]_vars

\* A T piece at the left wall was rotated and adopted one column to the right.
C6_Witness ==
    /\ lastOp = "rotatePiece"
    /\ lastOut = <<"kicked", 1>>
    /\ gameState.currentPiece # NoPiece
    /\ gameState.currentPiece.type = "T"
    /\ gameState.currentPiece.shape = TETROMINO_SHAPES("T")[3]
    /\ gameState.currentPiece.position.x = 0

\* C7: movePiece(dx, dy) in a running game adopts the shifted piece exactly when
\* it fits on the board, and otherwise returns the state it was given.
C7_MoveIffValid ==
    [][(lastOp' = "movePiece" /\ IsPlaying(gameState))
       => LET p       == gameState.currentPiece
              shifted == PieceAt(p, p.position.x + lastArgs'[1],
                                 p.position.y + lastArgs'[2])
          IN  /\ Fits(gameState.board, shifted)
                 => gameState' = [gameState EXCEPT !.currentPiece = shifted]
              /\ ~Fits(gameState.board, shifted) => gameState' = gameState]_vars

\* A move into a wall or into locked cells was rejected.
C7_Witness ==
    /\ lastOp = "movePiece"
    /\ lastOut[1] = "rejected"
    /\ IsPlaying(gameState)
    /\ ~Fits(gameState.board,
             PieceAt(gameState.currentPiece,
                     gameState.currentPiece.position.x + lastArgs[1],
                     gameState.currentPiece.position.y + lastArgs[2]))

\* C8: isValidMove is true exactly when every occupied cell of the shape, at
\* absolute (x, y), has 0 <= x < W, y < H and (y < 0 or board[y][x] empty).
C8_IsValidMoveExact ==
    pureCall.fn = "isValidMove"
    => LET board == testBoard(pureCall.args[1], pureCall.args[2])
           shape == TETROMINO_SHAPES(pureCall.args[3])[pureCall.args[4] + 1]
       IN  pureCall.result =
               (\A r \in 1..Len(shape) : \A c \in 1..Len(shape[r]) :
                   shape[r][c] = 1
                   => LET x == pureCall.args[5] + c - 1
                          y == pureCall.args[6] + r - 1
                      IN  /\ 0 <= x
                          /\ x < 10
                          /\ y < 20
                          /\ (y < 0 \/ board[y + 1][x + 1] = null))

\* A placement with occupied cells above row 0 was accepted, on a board whose
\* top row holds a cell.
C8_Witness ==
    /\ pureCall.fn = "isValidMove"
    /\ pureCall.result = TRUE
    /\ pureCall.args[1] = "top"
    /\ pureCall.args[3] = "O"
    /\ pureCall.args[6] < 0

\* C9: clearLines returns BOARD_HEIGHT rows: k empty rows, then the rows of the
\* input that have an empty cell, in their order; k is the number of rows of
\* the input without an empty cell, and is the count returned.
C9_ClearLinesCompacts ==
    pureCall.fn = "clearLines"
    => LET board == pureCall.args[1]
           HasEmptyCell(row) == \E x \in 1..Len(row) : row[x] = null
           kept == SelectSeq(board, HasEmptyCell)
           k == Cardinality(CompletedRows(board))
       IN  /\ Len(pureCall.result.newBoard) = 20
           /\ pureCall.result.newBoard
                  = [i \in 1..k |-> [x \in 1..10 |-> null]] \o kept
           /\ pureCall.result.linesCleared = k

\* clearLines removed two full rows that had a kept row between them.
C9_Witness ==
    /\ pureCall.fn = "clearLines"
    /\ pureCall.result.linesCleared = 2
    /\ \E y \in 2..(BOARD_HEIGHT - 1) :
           /\ y - 1 \in CompletedRows(pureCall.args[1])
           /\ y \notin CompletedRows(pureCall.args[1])
           /\ pureCall.args[1][y] # emptyRow
           /\ y + 1 \in CompletedRows(pureCall.args[1])

\* C10: clearLines applied to the board it returned clears 0 rows and returns
\* that board.
C10_ClearLinesIdempotent ==
    (pureCall.fn = "clearLines" /\ pureCall.args[2] = "output")
    => /\ pureCall.result.linesCleared = 0
       /\ pureCall.result.newBoard = pureCall.args[1]

\* clearLines was applied to a board it had returned after clearing rows.
C10_Witness ==
    /\ pureCall.fn = "clearLines"
    /\ pureCall.args[2] = "output"
    /\ pureCall.args[3] >= 2
    /\ pureCall.args[1] # createEmptyBoard

\* A piece of kind k as it is spawned: rotation state 0, horizontally centred
\* at x = floor(W / 2) - floor(shapeWidth / 2), y = 0.
IsSpawnOf(p, k) ==
    /\ p.type = k
    /\ p.shape = TETROMINO_SHAPES(k)[1]
    /\ p.position.x = (BOARD_WIDTH \div 2) - (Len(p.shape[1]) \div 2)
    /\ p.position.y = 0

\* C11: start/reset, from whichever state it is called in, yields an empty
\* board, score = level = lines = 0, isGameOver = isPaused = false, and a
\* current and a next piece that are each a kind's rotation state 0 at
\* x = floor(W / 2) - floor(shapeWidth / 2), y = 0.
C11_StartResetsEverything ==
    [][lastOp' = "initializeGame"
       => /\ Len(gameState'.board) = BOARD_HEIGHT
          /\ \A y \in 1..BOARD_HEIGHT :
                 /\ Len(gameState'.board[y]) = BOARD_WIDTH
                 /\ \A x \in 1..BOARD_WIDTH : gameState'.board[y][x] = null
          /\ gameState'.score = 0
          /\ gameState'.level = 0
          /\ gameState'.lines = 0
          /\ gameState'.isGameOver = FALSE
          /\ gameState'.isPaused = FALSE
          /\ \E k \in Kinds : IsSpawnOf(gameState'.currentPiece, k)
          /\ \E k \in Kinds : IsSpawnOf(gameState'.nextPiece, k)]_vars

\* Play Again has just been pressed on the game-over overlay.
C11_Witness ==
    /\ lastOp = "initializeGame"
    /\ lastOut = <<"started", 3>>
    /\ gameState.currentPiece # NoPiece
    /\ gameState.board = createEmptyBoard

\* C12: in every reachable state level = floor(lines / 10), and score, level
\* and lines are non-negative integers.
C12_LevelFromLines ==
    /\ gameState.level = gameState.lines \div 10
    /\ gameState.score \in Nat
    /\ gameState.level \in Nat
    /\ gameState.lines \in Nat

\* A lock of two rows has brought the lines from 8 to 10 and the level to 1.
C12_Witness ==
    /\ lastOp = "dropPiece"
    /\ lastOut = <<"locked", 2>>
    /\ gameState.lines = 10
    /\ gameState.level = 1

\* C13: the gravity timer is never armed while the game is paused or over, and
\* an armed timer's interval is max(50, 1000 - level * 50) for the current
\* level; a step that changes level, isPaused or isGameOver leaves the timer
\* cancelled if the new state is paused or over and armed with the new level's
\* interval otherwise.
C13_TimerFollowsState ==
    /\ [](dropTimer.armed
           => /\ ~gameState.isPaused
              /\ ~gameState.isGameOver
              /\ dropTimer.delay = Max(50, 1000 - gameState.level * 50))
    /\ [][(\/ gameState'.level # gameState.level
            \/ gameState'.isPaused # gameState.isPaused
            \/ gameState'.isGameOver # gameState.isGameOver)
           => IF gameState'.isPaused \/ gameState'.isGameOver
              THEN ~dropTimer'.armed
              ELSE /\ dropTimer'.armed
                   /\ dropTimer'.delay = Max(50, 1000 - gameState'.level * 50)]_vars

\* The timer runs at the interval of level 1, set when a lock raised the level.
C13_Witness ==
    /\ dropTimer.armed
    /\ dropTimer.delay = 950
    /\ gameState.level = 1
    /\ lastOp = "dropPiece"

\* C14: in every reachable state isPaused implies that a game is in progress
\* (currentPiece is non-null and isGameOver is false), and isPaused becomes
\* true only in a step taken from the Playing state.
C14_PausedOnlyFromPlaying ==
    /\ [](gameState.isPaused
           => gameState.currentPiece # NoPiece /\ ~gameState.isGameOver)
    /\ [][(~gameState.isPaused /\ gameState'.isPaused)
           => IsPlaying(gameState)]_vars

\* The game has just been paused with a piece in play.
C14_Witness ==
    /\ lastOp = "togglePause"
    /\ gameState.isPaused
    /\ gameState.currentPiece # NoPiece
    /\ steps > 0

\* C15: togglePause, called in a state where isGameOver is false, negates
\* isPaused and leaves board, currentPiece, nextPiece, score, level, lines and
\* isGameOver unchanged, and a second togglePause on the state it returned
\* returns the original state.
C15_TogglePauseInvolution ==
    [][(lastOp' = "togglePause" /\ ~gameState.isGameOver)
       => /\ gameState'.isPaused = ~gameState.isPaused
          /\ gameState'.board = gameState.board
          /\ gameState'.currentPiece = gameState.currentPiece
          /\ gameState'.nextPiece = gameState.nextPiece
          /\ gameState'.score = gameState.score
          /\ gameState'.level = gameState.level
          /\ gameState'.lines = gameState.lines
          /\ gameState'.isGameOver = gameState.isGameOver
          /\ togglePauseResult(gameState') = gameState]_vars

\* A paused game with a hard-dropped piece has just been resumed.
C15_Witness ==
    /\ lastOp = "togglePause"
    /\ ~gameState.isPaused
    /\ ~gameState.isGameOver
    /\ gameState.score > 0
    /\ steps > 1

\* C16: after start, whenever the game is Playing (currentPiece non-null, not
\* paused, not game over) a gravity timer is armed, so that ticks alone bring
\* the piece down and lock it; in particular right after the first start.
C16_TimerArmedWhilePlaying ==
    (gameStarted /\ IsPlaying(gameState)) => dropTimer.armed

\* C17: in every lock performed by tick the stamp completes between 0 and 4
\* rows and the number of rows cleared is between 0 and 4, an index at which the
\* score table is defined.
C17_LockClearsAtMostFour ==
    [][(lastOp' = "dropPiece" /\ LocksNow(gameState))
       => /\ Cardinality(CompletedRows(placePiece(gameState.board,
                                                   gameState.currentPiece))) \in 0..4
          /\ lastOut'[2] \in 0..4
          /\ (lastOut'[2] + 1) \in DOMAIN baseScores]_vars

\* A lock has cleared four rows at once and scored them.
C17_Witness ==
    /\ lastOp = "dropPiece"
    /\ lastOut[1] = "locked"
    /\ lastOut[2] = 4
    /\ gameState.score >= 1200

\* The cells of the board (1-based <<x, y>>) that the stamp of piece p changes.
StampedCells(b, p) ==
    {c \in (1..BOARD_WIDTH) \X (1..BOARD_HEIGHT) :
        placePiece(b, p)[c[2]][c[1]] # b[c[2]][c[1]]}

\* C18: whenever tick locks a piece, every occupied cell of the piece lies
\* inside the board (0 <= x < W, 0 <= y < H) and the lock stamps exactly the
\* piece's 4 cells into the board.
C18_LockStampsFourCells ==
    [][(lastOp' = "dropPiece" /\ LocksNow(gameState))
       => /\ \A c \in shapeCells(gameState.currentPiece.shape) :
                 /\ gameState.currentPiece.position.x + c[1] \in 0..(BOARD_WIDTH - 1)
                 /\ gameState.currentPiece.position.y + c[2] \in 0..(BOARD_HEIGHT - 1)
          /\ Cardinality(StampedCells(gameState.board, gameState.currentPiece)) = 4]_vars

\* The current piece of s can descend: the next tick moves it one row down.
FallsNow(s) ==
    /\ IsPlaying(s)
    /\ Fits(s.board, PieceAt(s.currentPiece, s.currentPiece.position.x,
                             s.currentPiece.position.y + 1))

\* C19: movePiece, rotatePiece, hardDrop, togglePause and a tick whose downward
\* step is valid leave board, lines and level unchanged; such a tick changes
\* nothing but the current piece's y, which grows by 1; and the board changes
\* only in a locking tick or in start/reset.
C19_BoardFrame ==
    /\ [][(\/ lastOp' \in {"movePiece", "rotatePiece", "hardDrop", "togglePause"}
            \/ (lastOp' = "dropPiece" /\ FallsNow(gameState)))
           => /\ gameState'.board = gameState.board
              /\ gameState'.lines = gameState.lines
              /\ gameState'.level = gameState.level]_vars
    /\ [][(lastOp' = "dropPiece" /\ FallsNow(gameState))
           => gameState' =
                  [gameState EXCEPT !.currentPiece.position.y =
                                        gameState.currentPiece.position.y + 1]]_vars
    /\ [][gameState'.board # gameState.board
           => \/ lastOp' = "initializeGame"
              \/ (lastOp' = "dropPiece" /\ LocksNow(gameState))]_vars

\* A tick has moved the piece one row down above a board with locked cells.
C19_Witness ==
    /\ lastOp = "dropPiece"
    /\ lastOut = <<"moved", 0>>
    /\ gameState.currentPiece.position.y > 0
    /\ gameState.board # createEmptyBoard
    /\ steps > 0

\* C20: in every reachable state with a current piece, each occupied cell of
\* the piece is within 0 <= x < W and y < H and, when it is on the board, on an
\* empty cell of the board.
C20_CurrentPieceFits ==
    gameState.currentPiece # NoPiece
    => \A c \in shapeCells(gameState.currentPiece.shape) :
           LET x == gameState.currentPiece.position.x + c[1]
               y == gameState.currentPiece.position.y + c[2]
           IN  /\ x >= 0
               /\ x < BOARD_WIDTH
               /\ y < BOARD_HEIGHT
               /\ (y >= 0 => gameState.board[y + 1][x + 1] = null)

\* A rotation was kicked into place beside locked cells.
C20_Witness ==
    /\ lastOp = "rotatePiece"
    /\ lastOut[1] = "kicked"
    /\ gameState.currentPiece # NoPiece
    /\ gameState.board # createEmptyBoard

\* C21: in every reachable state the board has exactly H rows of W cells and
\* none of its rows is completed (all W cells non-empty).
C21_NoCompletedRow ==
    /\ Len(gameState.board) = BOARD_HEIGHT
    /\ \A y \in 1..Len(gameState.board) :
           /\ Len(gameState.board[y]) = BOARD_WIDTH
           /\ \E x \in 1..BOARD_WIDTH : gameState.board[y][x] = null

\* A lock has cleared rows and left locked cells on the board.
C21_Witness ==
    /\ lastOp = "dropPiece"
    /\ lastOut[1] = "locked"
    /\ lastOut[2] > 0
    /\ gameState.board # createEmptyBoard

\* C22: in every reachable state currentPiece and nextPiece are both null or
\* both non-null, so a tick that locks reads a non-null nextPiece; and when
\* isGameOver is true both are null.
C22_PiecesNullTogether ==
    /\ (gameState.currentPiece = NoPiece) <=> (gameState.nextPiece = NoPiece)
    /\ LocksNow(gameState) => gameState.nextPiece # NoPiece
    /\ gameState.isGameOver
       => gameState.currentPiece = NoPiece /\ gameState.nextPiece = NoPiece

\* The game is over, both pieces are null and the timer is cancelled.
C22_Witness ==
    /\ gameState.isGameOver
    /\ gameState.currentPiece = NoPiece
    /\ gameState.nextPiece = NoPiece
    /\ gameStarted
    /\ ~dropTimer.armed

====
